---- MODULE Spec2Model ----
(***************************************************************************)
(* ShopDB (src/main.py): product catalogue CRUD, register / login /        *)
(* logout over a process-wide sessions dictionary, a shopping cart and a   *)
(* bookmarks list, each handler a few ORM statements over four tables.     *)
(*                                                                         *)
(* The state is the four tables (rows kept in primary-key order, the       *)
(* order MySQL returns them in for the unordered queries of the source),   *)
(* the sessions dictionary, and the last request with its response.        *)
(*                                                                         *)
(* What the source declares about the store is modelled:                   *)
(*   - AUTO_INCREMENT integer primary keys (ids start at 1, never reused), *)
(*   - users.username UNIQUE (an INSERT of a taken name is rejected),      *)
(*   - the FOREIGN KEYs of cart_items and bookmarks.  Whether the store    *)
(*     enforces them depends on the storage engine behind DATABASE_URL     *)
(*     (InnoDB rejects the statement, MyISAM accepts the declaration and   *)
(*     ignores it), so fkEnforced is chosen once, at start-up, and both    *)
(*     outcomes are explored,                                              *)
(*   - the request / response schemas: a ProductUpdate field may be        *)
(*     explicitly null, a ProductOut field may not, and a handler whose    *)
(*     return value does not validate against its response_model answers   *)
(*     500 once its database work is done.                                 *)
(* An exception that is not an HTTPException (IntegrityError, response     *)
(* validation) reaches the client as status 500.                           *)
(***************************************************************************)
EXTENDS Integers, Sequences, FiniteSets, TLC

\* ---------------------------------------------------------------- bounds
\* Rows ever inserted, over the four tables together.
MaxInserts == 4
\* Requests in flight at once in the interleaved specification.
MaxRequests == 2

\* ---------------------------------------------------------------- inputs
Usernames == {"alice", "bob"}
Passwords == {"pw1", "pw2"}

\* Python's None and SQL's NULL for a scalar; field values are opaque tokens.
NULL == "NULL"

ProductFields == {"name", "price", "description", "stock"}

\* Request bodies of POST /products/ (every field required).
ProductCreateInputs ==
    { [name |-> "mug", price |-> "4.50", description |-> "white", stock |-> "7"] }

\* Request bodies of PUT /products/{id}, as product_data.dict(exclude_unset=True):
\* the fields the client sent, a null included.
ProductUpdateInputs ==
    { [stock |-> "0"],
      [name |-> NULL] }

\* No request body (and the empty update).
NoData == [f \in {} |-> NULL]

VARIABLES
    users,        \* table users: <<[id, username, password]>>
    products,     \* table products: <<[id, name, price, description, stock]>>
    cart_items,   \* table cart_items: <<[id, user_id, product_id]>>
    bookmarks,    \* table bookmarks: <<[id, user_id, product_id]>>
    lastId,       \* AUTO_INCREMENT counters: last id given out, per table
    sessions,     \* the sessions dict: username -> user id
    fkEnforced,   \* whether the store enforces the declared foreign keys
    fresh,        \* history: products as create_product returned them, not
                  \* deleted or updated since
    resp,         \* the request being answered and its response
    reqs          \* interleaved requests: what each has read and where it stands

vars == <<users, products, cart_items, bookmarks, lastId, sessions, fkEnforced,
          fresh, resp, reqs>>

\* What no handler writes.
fixed == <<fkEnforced, reqs>>

tables == <<users, products, cart_items, bookmarks, lastId>>

\* ---------------------------------------------------------------- helpers
Range(s) == { s[i] : i \in DOMAIN s }

\* s without its i-th element.
RemoveAt(s, i) == [ j \in 1..(Len(s) - 1) |-> IF j < i THEN s[j] ELSE s[j + 1] ]

\* Query.first() over the rows at the indices I (those the filter keeps):
\* the index of the first of them, 0 for None.
First(I) ==
    IF I = {} THEN 0 ELSE CHOOSE i \in I : \A j \in I : i <= j

Inserted == lastId.users + lastId.products + lastId.cart_items + lastId.bookmarks

CanInsert == Inserted < MaxInserts

\* Product ids a request may name: every id given out so far (in the table
\* or deleted) and the next one, which no product has had yet.
RequestProductIds == 1..(lastId.products + 1)

ProductIdsIn(ps) == { ps[i].id : i \in DOMAIN ps }

\* The relationship attribute item.product of a row whose product is gone:
\* None, written as the product with no id and no field.
NoneProduct ==
    [id |-> 0, name |-> NULL, price |-> NULL, description |-> NULL, stock |-> NULL]

Response(op, username, password, product_id, data, status, body) ==
    [op |-> op, username |-> username, password |-> password,
     product_id |-> product_id, data |-> data, status |-> status, body |-> body]

\* No request is being handled: the last response has been sent.
NoResponse == Response("idle", "", "", 0, NoData, 0, <<>>)

Idle == resp = NoResponse

\* A slot of the interleaved specification that holds no request.
FreeSlot ==
    [op |-> "free", pc |-> "free", username |-> "", password |-> "",
     product_id |-> 0, user_id |-> 0, status |-> 0]

\* ---------------------------------------------------------------- schemas
\* ProductOut(ProductCreate): id: int, name: str, price: float,
\* description: str, stock: int -- None is not an allowed value of any field,
\* nor is None a ProductOut.
ValidProductOut(p) ==
    /\ p # NoneProduct
    /\ \A f \in ProductFields : p[f] # NULL

\* response_model=List[ProductOut]: the status and body the client gets for a
\* handler that returned the list ps.
Serialized(ps) ==
    IF \A i \in DOMAIN ps : ValidProductOut(ps[i])
    THEN [status |-> 200, body |-> ps]
    ELSE [status |-> 500, body |-> <<>>]

\* Product(**product.dict()) once added, committed and refreshed.
NewProduct(id, data) ==
    [id |-> id, name |-> data.name, price |-> data.price,
     description |-> data.description, stock |-> data.stock]

\* for key, value in update_data.items(): setattr(product, key, value)
SetAttrs(p, data) ==
    [f \in DOMAIN p |-> IF f \in DOMAIN data THEN data[f] ELSE p[f]]

\* ---------------------------------------------------------------- queries
\* db.query(User).filter(User.username == username).first()
UserByName(us, username) ==
    First({ i \in DOMAIN us : us[i].username = username })

\* Mutant of UserByCredentials: the password is left out of the filter.
UserByCredentials_ignoring_password(us, username, password) ==
    First({ i \in DOMAIN us : us[i].username = username })

\* db.query(User).filter(User.username == ..., User.password == ...).first()
UserByCredentials(us, username, password) ==
    First({ i \in DOMAIN us : us[i].username = username /\ us[i].password = password })

\* db.query(Product).get(product_id)
ProductGet(ps, product_id) ==
    First({ i \in DOMAIN ps : ps[i].id = product_id })

\* item.product (relationship("Product")): the product the row points at,
\* None when there is none.
ProductOf(ps, row) ==
    IF ProductGet(ps, row.product_id) = 0
    THEN NoneProduct
    ELSE ps[ProductGet(ps, row.product_id)]

\* db.query(T).filter(T.user_id == user_id).all()
RowsOfUser(rows, user_id) ==
    SelectSeq(rows, LAMBDA r : r.user_id = user_id)

\* db.query(T).filter_by(user_id=user_id, product_id=product_id).first()
RowOfUserProduct(rows, user_id, product_id) ==
    First({ i \in DOMAIN rows :
             rows[i].user_id = user_id /\ rows[i].product_id = product_id })

\* [item.product for item in items]
ProductsOfRows(ps, rows) ==
    [i \in DOMAIN rows |-> ProductOf(ps, rows[i])]

\* sessions.get(username): the user id, None (0, falsy like None) without one.
SessionGet(ss, username) ==
    IF username \in DOMAIN ss THEN ss[username] ELSE 0

\* sessions[username] = user_id
SessionSet(ss, username, user_id) ==
    [u \in DOMAIN ss \cup {username} |-> IF u = username THEN user_id ELSE ss[u]]

\* sessions.pop(username, None)
SessionPop(ss, username) ==
    [u \in DOMAIN ss \ {username} |-> ss[u]]

\* ---------------------------------------------------------------- store
\* The FOREIGN KEY (product_id) REFERENCES products (id) of cart_items and
\* bookmarks, where the store enforces it.
Referenced(product_id) ==
    \/ \E i \in DOMAIN cart_items : cart_items[i].product_id = product_id
    \/ \E i \in DOMAIN bookmarks : bookmarks[i].product_id = product_id

\* users.username is UNIQUE: the commit of INSERT INTO users is rejected.
UniqueViolation(username) ==
    \E i \in DOMAIN users : users[i].username = username

\* The commit of DELETE FROM products WHERE id = product_id is rejected.
DeleteRejected(product_id) ==
    fkEnforced /\ Referenced(product_id)

\* The commit of INSERT INTO cart_items / bookmarks (user_id, product_id) is
\* rejected.  user_id comes from sessions and users are never deleted.
InsertRejected(product_id) ==
    fkEnforced /\ product_id \notin ProductIdsIn(products)

\* ---------------------------------------------------------------- start
Init ==
    /\ users = <<>>
    /\ products = <<>>
    /\ cart_items = <<>>
    /\ bookmarks = <<>>
    /\ lastId = [users |-> 0, products |-> 0, cart_items |-> 0, bookmarks |-> 0]
    /\ sessions = [u \in {} |-> 0]
    /\ fkEnforced \in BOOLEAN
    /\ fresh = {}
    /\ resp = NoResponse
    /\ reqs = [i \in 1..MaxRequests |-> FreeSlot]

\* ---------------------------------------------------------------- users
\* Mutant of register: no query for the username before the INSERT.
register_without_query(username, password) ==
    IF UniqueViolation(username)
    THEN /\ resp' = Response("register", username, password, 0, NoData, 500, <<>>)
         /\ UNCHANGED <<tables, sessions, fixed, fresh>>
    ELSE /\ CanInsert
         /\ users' = Append(users, [id |-> lastId.users + 1,
                                    username |-> username, password |-> password])
         /\ lastId' = [lastId EXCEPT !.users = @ + 1]
         /\ resp' = Response("register", username, password, 0, NoData, 200, <<>>)
         /\ UNCHANGED <<products, cart_items, bookmarks, sessions, fixed, fresh>>

register(username, password) ==
    IF UserByName(users, username) # 0
    THEN /\ resp' = Response("register", username, password, 0, NoData, 400, <<>>)
         /\ UNCHANGED <<tables, sessions, fixed, fresh>>
    ELSE IF UniqueViolation(username)
    THEN /\ resp' = Response("register", username, password, 0, NoData, 500, <<>>)
         /\ UNCHANGED <<tables, sessions, fixed, fresh>>
    ELSE /\ CanInsert
         /\ users' = Append(users, [id |-> lastId.users + 1,
                                    username |-> username, password |-> password])
         /\ lastId' = [lastId EXCEPT !.users = @ + 1]
         /\ resp' = Response("register", username, password, 0, NoData, 200, <<>>)
         /\ UNCHANGED <<products, cart_items, bookmarks, sessions, fixed, fresh>>

login(username, password) ==
    LET i == UserByCredentials(users, username, password) IN
    IF i = 0
    THEN /\ resp' = Response("login", username, password, 0, NoData, 400, <<>>)
         /\ UNCHANGED <<tables, sessions, fixed, fresh>>
    ELSE /\ sessions' = SessionSet(sessions, username, users[i].id)
         /\ resp' = Response("login", username, password, 0, NoData, 200, <<>>)
         /\ UNCHANGED <<tables, fixed, fresh>>

logout(username, password) ==
    /\ sessions' = SessionPop(sessions, username)
    /\ resp' = Response("logout", username, password, 0, NoData, 200, <<>>)
    /\ UNCHANGED <<tables, fixed, fresh>>

\* ---------------------------------------------------------------- products
create_product(data) ==
    LET p == NewProduct(lastId.products + 1, data) IN
    /\ CanInsert
    /\ products' = Append(products, p)
    /\ lastId' = [lastId EXCEPT !.products = @ + 1]
    /\ fresh' = fresh \cup {p}
    /\ resp' = Response("create_product", "", "", 0, data,
                        Serialized(<<p>>).status, Serialized(<<p>>).body)
    /\ UNCHANGED <<users, cart_items, bookmarks, sessions, fixed>>

read_products ==
    /\ resp' = Response("read_products", "", "", 0, NoData,
                        Serialized(products).status, Serialized(products).body)
    /\ UNCHANGED <<tables, sessions, fixed, fresh>>

\* Mutant of delete_product: the rows that point at the product go with it.
delete_product_cascading(product_id) ==
    LET i == ProductGet(products, product_id) IN
    IF i = 0
    THEN /\ resp' = Response("delete_product", "", "", product_id, NoData, 404, <<>>)
         /\ UNCHANGED <<tables, sessions, fixed, fresh>>
    ELSE /\ products' = RemoveAt(products, i)
         /\ cart_items' = SelectSeq(cart_items, LAMBDA r : r.product_id # product_id)
         /\ bookmarks' = SelectSeq(bookmarks, LAMBDA r : r.product_id # product_id)
         /\ fresh' = { p \in fresh : p.id # product_id }
         /\ resp' = Response("delete_product", "", "", product_id, NoData, 200, <<>>)
         /\ UNCHANGED <<users, lastId, sessions, fixed>>

delete_product(product_id) ==
    LET i == ProductGet(products, product_id) IN
    IF i = 0
    THEN /\ resp' = Response("delete_product", "", "", product_id, NoData, 404, <<>>)
         /\ UNCHANGED <<tables, sessions, fixed, fresh>>
    ELSE IF DeleteRejected(product_id)
    THEN /\ resp' = Response("delete_product", "", "", product_id, NoData, 500, <<>>)
         /\ UNCHANGED <<tables, sessions, fixed, fresh>>
    ELSE /\ products' = RemoveAt(products, i)
         /\ fresh' = { p \in fresh : p.id # product_id }
         /\ resp' = Response("delete_product", "", "", product_id, NoData, 200, <<>>)
         /\ UNCHANGED <<users, cart_items, bookmarks, lastId, sessions, fixed>>

update_product(product_id, data) ==
    LET i == ProductGet(products, product_id) IN
    IF i = 0
    THEN /\ resp' = Response("update_product", "", "", product_id, data, 404, <<>>)
         /\ UNCHANGED <<tables, sessions, fixed, fresh>>
    ELSE LET p == SetAttrs(products[i], data) IN
         /\ products' = [products EXCEPT ![i] = p]
         /\ fresh' = { q \in fresh : q.id # product_id }
         /\ resp' = Response("update_product", "", "", product_id, data,
                             Serialized(<<p>>).status, Serialized(<<p>>).body)
         /\ UNCHANGED <<users, cart_items, bookmarks, lastId, sessions, fixed>>

\* ---------------------------------------------------------------- cart
\* Mutant of add_to_cart: a product id not in products is answered 404.
add_to_cart_checking_product(username, product_id) ==
    LET user_id == SessionGet(sessions, username) IN
    IF user_id = 0
    THEN /\ resp' = Response("add_to_cart", username, "", product_id, NoData, 403, <<>>)
         /\ UNCHANGED <<tables, sessions, fixed, fresh>>
    ELSE IF ProductGet(products, product_id) = 0
    THEN /\ resp' = Response("add_to_cart", username, "", product_id, NoData, 404, <<>>)
         /\ UNCHANGED <<tables, sessions, fixed, fresh>>
    ELSE /\ CanInsert
         /\ cart_items' = Append(cart_items, [id |-> lastId.cart_items + 1,
                                              user_id |-> user_id,
                                              product_id |-> product_id])
         /\ lastId' = [lastId EXCEPT !.cart_items = @ + 1]
         /\ resp' = Response("add_to_cart", username, "", product_id, NoData, 200, <<>>)
         /\ UNCHANGED <<users, products, bookmarks, sessions, fixed, fresh>>

add_to_cart(username, product_id) ==
    LET user_id == SessionGet(sessions, username) IN
    IF user_id = 0
    THEN /\ resp' = Response("add_to_cart", username, "", product_id, NoData, 403, <<>>)
         /\ UNCHANGED <<tables, sessions, fixed, fresh>>
    ELSE IF InsertRejected(product_id)
    THEN /\ resp' = Response("add_to_cart", username, "", product_id, NoData, 500, <<>>)
         /\ UNCHANGED <<tables, sessions, fixed, fresh>>
    ELSE /\ CanInsert
         /\ cart_items' = Append(cart_items, [id |-> lastId.cart_items + 1,
                                              user_id |-> user_id,
                                              product_id |-> product_id])
         /\ lastId' = [lastId EXCEPT !.cart_items = @ + 1]
         /\ resp' = Response("add_to_cart", username, "", product_id, NoData, 200, <<>>)
         /\ UNCHANGED <<users, products, bookmarks, sessions, fixed, fresh>>

view_cart(username) ==
    LET user_id == SessionGet(sessions, username) IN
    IF user_id = 0
    THEN /\ resp' = Response("view_cart", username, "", 0, NoData, 403, <<>>)
         /\ UNCHANGED <<tables, sessions, fixed, fresh>>
    ELSE LET out == Serialized(ProductsOfRows(products, RowsOfUser(cart_items, user_id))) IN
         /\ resp' = Response("view_cart", username, "", 0, NoData, out.status, out.body)
         /\ UNCHANGED <<tables, sessions, fixed, fresh>>

remove_from_cart(username, product_id) ==
    LET user_id == SessionGet(sessions, username) IN
    IF user_id = 0
    THEN /\ resp' = Response("remove_from_cart", username, "", product_id, NoData, 403, <<>>)
         /\ UNCHANGED <<tables, sessions, fixed, fresh>>
    ELSE LET i == RowOfUserProduct(cart_items, user_id, product_id) IN
         /\ cart_items' = IF i # 0 THEN RemoveAt(cart_items, i) ELSE cart_items
         /\ resp' = Response("remove_from_cart", username, "", product_id, NoData, 200, <<>>)
         /\ UNCHANGED <<users, products, bookmarks, lastId, sessions, fixed, fresh>>

\* ---------------------------------------------------------------- bookmarks
\* Mutant of add_bookmark: the user is looked up in the users table, not in
\* sessions.
add_bookmark_of_stored_user(username, product_id) ==
    LET k == UserByName(users, username) IN
    IF k = 0
    THEN /\ resp' = Response("add_bookmark", username, "", product_id, NoData, 403, <<>>)
         /\ UNCHANGED <<tables, sessions, fixed, fresh>>
    ELSE IF InsertRejected(product_id)
    THEN /\ resp' = Response("add_bookmark", username, "", product_id, NoData, 500, <<>>)
         /\ UNCHANGED <<tables, sessions, fixed, fresh>>
    ELSE /\ CanInsert
         /\ bookmarks' = Append(bookmarks, [id |-> lastId.bookmarks + 1,
                                            user_id |-> users[k].id,
                                            product_id |-> product_id])
         /\ lastId' = [lastId EXCEPT !.bookmarks = @ + 1]
         /\ resp' = Response("add_bookmark", username, "", product_id, NoData, 200, <<>>)
         /\ UNCHANGED <<users, products, cart_items, sessions, fixed, fresh>>

add_bookmark(username, product_id) ==
    LET user_id == SessionGet(sessions, username) IN
    IF user_id = 0
    THEN /\ resp' = Response("add_bookmark", username, "", product_id, NoData, 403, <<>>)
         /\ UNCHANGED <<tables, sessions, fixed, fresh>>
    ELSE IF InsertRejected(product_id)
    THEN /\ resp' = Response("add_bookmark", username, "", product_id, NoData, 500, <<>>)
         /\ UNCHANGED <<tables, sessions, fixed, fresh>>
    ELSE /\ CanInsert
         /\ bookmarks' = Append(bookmarks, [id |-> lastId.bookmarks + 1,
                                            user_id |-> user_id,
                                            product_id |-> product_id])
         /\ lastId' = [lastId EXCEPT !.bookmarks = @ + 1]
         /\ resp' = Response("add_bookmark", username, "", product_id, NoData, 200, <<>>)
         /\ UNCHANGED <<users, products, cart_items, sessions, fixed, fresh>>

view_bookmarks(username) ==
    LET user_id == SessionGet(sessions, username) IN
    IF user_id = 0
    THEN /\ resp' = Response("view_bookmarks", username, "", 0, NoData, 403, <<>>)
         /\ UNCHANGED <<tables, sessions, fixed, fresh>>
    ELSE LET out == Serialized(ProductsOfRows(products, RowsOfUser(bookmarks, user_id))) IN
         /\ resp' = Response("view_bookmarks", username, "", 0, NoData, out.status, out.body)
         /\ UNCHANGED <<tables, sessions, fixed, fresh>>

remove_bookmark(username, product_id) ==
    LET user_id == SessionGet(sessions, username) IN
    IF user_id = 0
    THEN /\ resp' = Response("remove_bookmark", username, "", product_id, NoData, 403, <<>>)
         /\ UNCHANGED <<tables, sessions, fixed, fresh>>
    ELSE LET i == RowOfUserProduct(bookmarks, user_id, product_id) IN
         /\ bookmarks' = IF i # 0 THEN RemoveAt(bookmarks, i) ELSE bookmarks
         /\ resp' = Response("remove_bookmark", username, "", product_id, NoData, 200, <<>>)
         /\ UNCHANGED <<users, products, cart_items, lastId, sessions, fixed, fresh>>

\* ---------------------------------------------------------------- requests
\* One request is handled at a time: the next one is taken up once the
\* response to the last has been sent.
Register == Idle /\ \E u \in Usernames, pw \in Passwords : register(u, pw)
Login == Idle /\ \E u \in Usernames, pw \in Passwords : login(u, pw)
Logout == Idle /\ \E u \in Usernames, pw \in Passwords : logout(u, pw)
CreateProduct == Idle /\ \E d \in ProductCreateInputs : create_product(d)
ReadProducts == Idle /\ read_products
DeleteProduct == Idle /\ \E p \in RequestProductIds : delete_product(p)
UpdateProduct ==
    Idle /\ \E p \in RequestProductIds, d \in ProductUpdateInputs : update_product(p, d)
AddToCart == Idle /\ \E u \in Usernames, p \in RequestProductIds : add_to_cart(u, p)
ViewCart == Idle /\ \E u \in Usernames : view_cart(u)
RemoveFromCart ==
    Idle /\ \E u \in Usernames, p \in RequestProductIds : remove_from_cart(u, p)
AddBookmark == Idle /\ \E u \in Usernames, p \in RequestProductIds : add_bookmark(u, p)
ViewBookmarks == Idle /\ \E u \in Usernames : view_bookmarks(u)
RemoveBookmark ==
    Idle /\ \E u \in Usernames, p \in RequestProductIds : remove_bookmark(u, p)

\* The response goes out to the client.
SendResponse ==
    /\ ~Idle
    /\ resp' = NoResponse
    /\ UNCHANGED <<tables, sessions, fixed, fresh>>

Next ==
    \/ Register
    \/ Login
    \/ Logout
    \/ CreateProduct
    \/ ReadProducts
    \/ DeleteProduct
    \/ UpdateProduct
    \/ AddToCart
    \/ ViewCart
    \/ RemoveFromCart
    \/ AddBookmark
    \/ ViewBookmarks
    \/ RemoveBookmark
    \/ SendResponse

Spec == Init /\ [][Next]_vars

\* ---------------------------------------------------------------- interleaving
\* The same handlers with their statements interleaved: a request reads (the
\* query, the sessions lookup) in one step and writes (the commit, the
\* sessions assignment) in a later one, and nothing is locked in between.
\* A request is taken up in the step of its first read; reqs[i] keeps what it
\* read and, once answered, its status.

Slots == 1..MaxRequests

Slot(op, pc, username, password, product_id, user_id, status) ==
    [op |-> op, pc |-> pc, username |-> username, password |-> password,
     product_id |-> product_id, user_id |-> user_id, status |-> status]

\* register, up to the 400: the query for the username.
register_query(i, username, password) ==
    /\ reqs[i].pc = "free"
    /\ reqs' = [reqs EXCEPT ![i] =
                  IF UserByName(users, username) # 0
                  THEN Slot("register", "done", username, password, 0, 0, 400)
                  ELSE Slot("register", "commit", username, password, 0, 0, 0)]
    /\ UNCHANGED <<tables, sessions, fkEnforced, fresh, resp>>

\* register, from db.add: the INSERT and its commit.
register_commit(i) ==
    /\ reqs[i].op = "register" /\ reqs[i].pc = "commit"
    /\ IF UniqueViolation(reqs[i].username)
       THEN /\ reqs' = [reqs EXCEPT ![i].pc = "done", ![i].status = 500]
            /\ UNCHANGED tables
       ELSE /\ CanInsert
            /\ users' = Append(users, [id |-> lastId.users + 1,
                                       username |-> reqs[i].username,
                                       password |-> reqs[i].password])
            /\ lastId' = [lastId EXCEPT !.users = @ + 1]
            /\ reqs' = [reqs EXCEPT ![i].pc = "done", ![i].status = 200]
            /\ UNCHANGED <<products, cart_items, bookmarks>>
    /\ UNCHANGED <<sessions, fkEnforced, fresh, resp>>

\* login, up to the 400: the query for the credentials.
login_query(i, username, password) ==
    LET k == UserByCredentials(users, username, password) IN
    /\ reqs[i].pc = "free"
    /\ reqs' = [reqs EXCEPT ![i] =
                  IF k = 0
                  THEN Slot("login", "done", username, password, 0, 0, 400)
                  ELSE Slot("login", "set", username, password, 0, users[k].id, 0)]
    /\ UNCHANGED <<tables, sessions, fkEnforced, fresh, resp>>

\* login: sessions[user.username] = db_user.id
login_set(i) ==
    /\ reqs[i].op = "login" /\ reqs[i].pc = "set"
    /\ sessions' = SessionSet(sessions, reqs[i].username, reqs[i].user_id)
    /\ reqs' = [reqs EXCEPT ![i].pc = "done", ![i].status = 200]
    /\ UNCHANGED <<tables, fkEnforced, fresh, resp>>

\* logout: one dictionary operation.
logout_pop(i, username, password) ==
    /\ reqs[i].pc = "free"
    /\ sessions' = SessionPop(sessions, username)
    /\ reqs' = [reqs EXCEPT ![i] = Slot("logout", "done", username, password, 0, 0, 200)]
    /\ UNCHANGED <<tables, fkEnforced, fresh, resp>>

\* add_to_cart / add_bookmark, up to the 403: the sessions lookup.
add_check(i, op, username, product_id) ==
    LET user_id == SessionGet(sessions, username) IN
    /\ reqs[i].pc = "free"
    /\ reqs' = [reqs EXCEPT ![i] =
                  IF user_id = 0
                  THEN Slot(op, "done", username, "", product_id, 0, 403)
                  ELSE Slot(op, "commit", username, "", product_id, user_id, 0)]
    /\ UNCHANGED <<tables, sessions, fkEnforced, fresh, resp>>

\* add_to_cart / add_bookmark, from db.add: the INSERT and its commit.
add_commit(i) ==
    /\ reqs[i].op \in {"add_to_cart", "add_bookmark"} /\ reqs[i].pc = "commit"
    /\ IF InsertRejected(reqs[i].product_id)
       THEN /\ reqs' = [reqs EXCEPT ![i].pc = "done", ![i].status = 500]
            /\ UNCHANGED tables
       ELSE /\ CanInsert
            /\ IF reqs[i].op = "add_to_cart"
               THEN /\ cart_items' = Append(cart_items,
                                            [id |-> lastId.cart_items + 1,
                                             user_id |-> reqs[i].user_id,
                                             product_id |-> reqs[i].product_id])
                    /\ lastId' = [lastId EXCEPT !.cart_items = @ + 1]
                    /\ UNCHANGED bookmarks
               ELSE /\ bookmarks' = Append(bookmarks,
                                           [id |-> lastId.bookmarks + 1,
                                            user_id |-> reqs[i].user_id,
                                            product_id |-> reqs[i].product_id])
                    /\ lastId' = [lastId EXCEPT !.bookmarks = @ + 1]
                    /\ UNCHANGED cart_items
            /\ reqs' = [reqs EXCEPT ![i].pc = "done", ![i].status = 200]
            /\ UNCHANGED <<users, products>>
    /\ UNCHANGED <<sessions, fkEnforced, fresh, resp>>

\* The response of request i goes out; its slot takes the next request.
respond(i) ==
    /\ reqs[i].pc = "done"
    /\ reqs' = [reqs EXCEPT ![i] = FreeSlot]
    /\ UNCHANGED <<tables, sessions, fkEnforced, fresh, resp>>

RegisterQuery == \E i \in Slots, u \in Usernames, pw \in Passwords : register_query(i, u, pw)
RegisterCommit == \E i \in Slots : register_commit(i)
LoginQuery == \E i \in Slots, u \in Usernames, pw \in Passwords : login_query(i, u, pw)
LoginSet == \E i \in Slots : login_set(i)
LogoutPop == \E i \in Slots, u \in Usernames, pw \in Passwords : logout_pop(i, u, pw)
AddCheck ==
    \E i \in Slots, op \in {"add_to_cart", "add_bookmark"}, u \in Usernames,
       p \in RequestProductIds : add_check(i, op, u, p)
AddCommit == \E i \in Slots : add_commit(i)
Respond == \E i \in Slots : respond(i)

\* create_product writes once, in its commit, and reads nothing: it
\* interleaves as the one step it is in Spec.
NextInterleaved ==
    \/ RegisterQuery
    \/ RegisterCommit
    \/ LoginQuery
    \/ LoginSet
    \/ LogoutPop
    \/ AddCheck
    \/ AddCommit
    \/ Respond
    \/ CreateProduct
    \/ SendResponse

SpecInterleaved == Init /\ [][NextInterleaved]_vars

\* ---------------------------------------------------------------- properties
CartOps ==
    {"add_to_cart", "view_cart", "remove_from_cart",
     "add_bookmark", "view_bookmarks", "remove_bookmark"}

\* The user's rows of the table a view reads.
ViewedRows(r) ==
    RowsOfUser(IF r.op = "view_cart" THEN cart_items ELSE bookmarks,
               sessions[r.username])

\* C1: for a logged-in user, view_cart (view_bookmarks) succeeds and returns
\* one product per cart_items (bookmarks) row of that user, in the order the
\* rows were added, each a product of the products table, whatever product
\* operations went before.
C1_ViewsReturnAddedProductsInOrder ==
    (resp.op \in {"view_cart", "view_bookmarks"} /\ resp.username \in DOMAIN sessions)
    => /\ resp.status = 200
       /\ Len(resp.body) = Len(ViewedRows(resp))
       /\ \A i \in DOMAIN resp.body :
            /\ resp.body[i].id = ViewedRows(resp)[i].product_id
            /\ resp.body[i] \in Range(products)

\* C2: a cart or bookmark operation for a username without an entry in
\* sessions returns 403 and leaves cart_items, bookmarks and sessions as they
\* were.
C2_NoSessionIs403 ==
    [][ (resp'.op \in CartOps /\ resp'.username \notin DOMAIN sessions)
        => /\ resp'.status = 403
           /\ UNCHANGED <<cart_items, bookmarks, sessions>> ]_vars

\* C2 happens: a user who owns a cart row and has logged out is refused.
C2_Witness ==
    /\ resp.op = "add_to_cart" /\ resp.status = 403
    /\ \E i \in DOMAIN users, j \in DOMAIN cart_items :
         /\ users[i].username = resp.username
         /\ cart_items[j].user_id = users[i].id

NoTwoUsersShareName ==
    \A i, j \in DOMAIN users : users[i].username = users[j].username => i = j

\* C3: registering a stored username returns 400, adds no user row, leaves
\* the stored password and sessions as they were; no two user rows ever
\* share a username.
C3_DuplicateUsernameIs400 ==
    /\ []NoTwoUsersShareName
    /\ [][ (resp'.op = "register"
            /\ \E i \in DOMAIN users : users[i].username = resp'.username)
           => /\ resp'.status = 400
              /\ UNCHANGED <<users, sessions>> ]_vars

\* C3 happens: a taken name is refused to a request with another password.
C3_Witness ==
    /\ resp.op = "register" /\ resp.status = 400
    /\ \E i \in DOMAIN users :
         users[i].username = resp.username /\ users[i].password # resp.password

\* C4: delete_product and update_product of an id not in products return 404
\* and leave products, cart_items and bookmarks as they were; delete_product
\* of an id in products removes that row and no other.
C4_MissingProductIs404 ==
    [][ /\ (resp'.op \in {"delete_product", "update_product"}
            /\ resp'.product_id \notin ProductIdsIn(products))
           => /\ resp'.status = 404
              /\ UNCHANGED <<products, cart_items, bookmarks>>
        /\ (resp'.op = "delete_product"
            /\ resp'.product_id \in ProductIdsIn(products))
           => /\ Len(products') = Len(products) - 1
              /\ Range(products') =
                   { p \in Range(products) : p.id # resp'.product_id } ]_vars

\* C5: a product create_product returned is in every later read_products
\* result, with the submitted fields, until it is deleted or updated; the id
\* create_product assigns is held by no other product.
C5_CreatedProductIsListed ==
    /\ (resp.op = "read_products" /\ fresh # {})
       => /\ resp.status = 200
          /\ fresh \subseteq Range(resp.body)
    /\ resp.op = "create_product"
       => /\ resp.status = 200
          /\ resp.body[1] = NewProduct(resp.body[1].id, resp.data)
    /\ \A i, j \in DOMAIN products : products[i].id = products[j].id => i = j

ServerErrorCause(r) ==
    \/ /\ r.op \in {"add_to_cart", "add_bookmark"}
       /\ r.username \in DOMAIN sessions
       /\ fkEnforced /\ r.product_id \notin ProductIdsIn(products)
    \/ /\ r.op = "delete_product"
       /\ r.product_id \in ProductIdsIn(products)
       /\ fkEnforced /\ Referenced(r.product_id)
    \/ /\ r.op = "update_product"
       /\ \E p \in Range(products) : p.id = r.product_id /\ ~ValidProductOut(p)
    \/ /\ r.op = "read_products"
       /\ \E p \in Range(products) : ~ValidProductOut(p)
    \/ /\ r.op \in {"view_cart", "view_bookmarks"}
       /\ r.username \in DOMAIN sessions
       /\ \E i \in DOMAIN ViewedRows(r) : ~ValidProductOut(ProductOf(products, ViewedRows(r)[i]))

OneRowAdded(rows, rows2, user_id, product_id) ==
    /\ Len(rows2) = Len(rows) + 1
    /\ SubSeq(rows2, 1, Len(rows)) = rows
    /\ rows2[Len(rows2)].user_id = user_id
    /\ rows2[Len(rows2)].product_id = product_id
    /\ \A i \in DOMAIN rows : rows[i].id # rows2[Len(rows2)].id

\* rows without one of its rows (user_id, product_id), or as it was when it
\* has none.
OneRowRemoved(rows, rows2, user_id, product_id) ==
    IF \E i \in DOMAIN rows :
         rows[i].user_id = user_id /\ rows[i].product_id = product_id
    THEN \E i \in DOMAIN rows :
           /\ rows[i].user_id = user_id /\ rows[i].product_id = product_id
           /\ rows2 = RemoveAt(rows, i)
    ELSE rows2 = rows

\* C8: for a logged-in user every add_to_cart adds one row, a duplicate
\* included, and every remove_from_cart removes one row of that user and
\* product when there is one and none otherwise, both succeeding; no other
\* row and no bookmarks row changes.  The same for add_bookmark and
\* remove_bookmark, with cart_items untouched.
C8_DuplicatesAddedAndRemovedOneAtATime ==
    [][ resp'.username \in DOMAIN sessions =>
        LET uid == sessions[resp'.username]
            pid == resp'.product_id
        IN  /\ resp'.op = "add_to_cart"
               => /\ resp'.status = 200
                  /\ OneRowAdded(cart_items, cart_items', uid, pid)
                  /\ UNCHANGED bookmarks
            /\ resp'.op = "remove_from_cart"
               => /\ resp'.status = 200
                  /\ OneRowRemoved(cart_items, cart_items', uid, pid)
                  /\ UNCHANGED bookmarks
            /\ resp'.op = "add_bookmark"
               => /\ resp'.status = 200
                  /\ OneRowAdded(bookmarks, bookmarks', uid, pid)
                  /\ UNCHANGED cart_items
            /\ resp'.op = "remove_bookmark"
               => /\ resp'.status = 200
                  /\ OneRowRemoved(bookmarks, bookmarks', uid, pid)
                  /\ UNCHANGED cart_items ]_vars

\* Every entry of sessions is the id of the stored user of that name.
SessionsNameStoredUsers ==
    \A u \in DOMAIN sessions :
      \E i \in DOMAIN users : users[i].username = u /\ users[i].id = sessions[u]

\* C9: every entry of sessions maps a username to the id of the stored user
\* of that name; an entry for u is made (or changed) only by a login with u
\* and u's stored password, a refused login leaves sessions as it was, an
\* entry is removed only by logout(u), and logout succeeds with or without an
\* entry, whatever the password.
C9_SessionsMap ==
    /\ []SessionsNameStoredUsers
    /\ [][ /\ \A u \in DOMAIN sessions' :
                (u \notin DOMAIN sessions \/ sessions'[u] # sessions[u])
                => /\ resp'.op = "login" /\ resp'.status = 200
                   /\ resp'.username = u
                   /\ \E i \in DOMAIN users :
                        /\ users[i].username = u
                        /\ users[i].password = resp'.password
           /\ (resp'.op = "login" /\ resp'.status = 400) => UNCHANGED sessions
           /\ \A u \in DOMAIN sessions \ DOMAIN sessions' :
                resp'.op = "logout" /\ resp'.username = u
           /\ resp'.op = "logout"
              => /\ resp'.status = 200
                 /\ resp'.username \notin DOMAIN sessions' ]_vars

\* C9 happens: a logout with a password that is not the user's ends the
\* user's session while another user's entry stays.
C9_Witness ==
    /\ resp.op = "logout" /\ resp.status = 200
    /\ resp.username \notin DOMAIN sessions
    /\ sessions # [u \in {} |-> 0]
    /\ \E i \in DOMAIN users :
         users[i].username = resp.username /\ users[i].password # resp.password

\* C10 (under SpecInterleaved): two register requests for one username leave
\* one user row of that name, one of them answered 200 and the other 400 (both
\* 400 when the name was stored before); a row is being inserted only for a
\* request that found a session at its check.
C10_InterleavingIsHarmless ==
    /\ \A i, j \in Slots :
         (/\ i # j
          /\ reqs[i].op = "register" /\ reqs[i].pc = "done"
          /\ reqs[j].op = "register" /\ reqs[j].pc = "done"
          /\ reqs[i].username = reqs[j].username)
         => /\ Cardinality({ k \in DOMAIN users :
                               users[k].username = reqs[i].username }) = 1
            /\ reqs[i].status \in {200, 400} /\ reqs[j].status \in {200, 400}
            /\ ~(reqs[i].status = 200 /\ reqs[j].status = 200)
    /\ \A i \in Slots :
         (reqs[i].op \in {"add_to_cart", "add_bookmark"} /\ reqs[i].pc = "commit")
         => reqs[i].user_id # 0

====
